---- MODULE Spec2Model ----
(***************************************************************************)
(* Yappi mission-script compiler: Analyzator -> ParametersValidator ->     *)
(* Figure (trajectories) -> Translator, as driven by src/main.py.          *)
(*                                                                         *)
(* Text is a sequence of lexical symbols: a word (identifier or numeric    *)
(* literal) is one symbol, and each of ( ) , = and the blank is a symbol   *)
(* of its own.  The Cyrillic words of the language are transliterated:     *)
(*   obsledovanie_tochki  обследование_точки    vysota   высота            *)
(*   obsledovanie_figury  обследование_фигуры   glubina  глубина           *)
(*   obsledovanie_linii   обследование_линии    skorost  скорость          *)
(*   traektoriya  траектория    koordinaty  координаты   pribor  прибор    *)
(*   meandr  меандр   spiral  спираль   zvezda  звезда   rozetka розетка   *)
(*   vertikalno вертикально   gorizontalno горизонтально   linii  линии    *)
(*   dlina длина  shirina ширина  mezhgals межгалс  radius радиус          *)
(*   gbo гбо   mle млэ   fotokamera фотокамера   sobytie событие           *)
(*   vkl вкл   pauza пауза   prodolzhit продолжить   vykl выкл             *)
(*   VD ВД   SSh СШ   deg  the degree sign                                 *)
(* Numbers are integer valued; a value carries its Python type as a tag.   *)
(***************************************************************************)
EXTENDS Integers, Sequences, FiniteSets, TLC

VARIABLES
    data,       \* Analyzator.data: the pre-processed lines of the script
    rules,      \* ParametersValidator: required_keys, optional_keys, trajectory_dependent
    phase,      \* position of the driver (main.py): which handler runs next
    result,     \* the command list: analyzer output, validated in place, then with waypoints
    vi,         \* validate(): index of the command being validated
    pc,         \* _validate_command(): the step to run next
    asking,     \* the parameter _prompt_for_parameter() is waiting on input() for ("" none)
    asks,       \* number of input() calls made so far
    err,        \* the exception that left the current handler ("" none)
    tasks,      \* Translator: mission_json["mission::Plan"]["tasks"]
    snap,       \* history: the parameter map and input() count after a normalization pass
    tokens,     \* Analyzator.analyze(): token_types and tokens of lexical_analysis()
    variables,  \* Variables._variables: name -> stored text
    spiral      \* generate_spiral(): its arguments and locals, pc "idle" outside a call

vars == <<data, rules, phase, result, vi, pc, asking, asks, err, tasks, snap, tokens,
          variables, spiral>>

\* no call of generate_spiral is running
NoSpiral == [pc |-> "idle"]

-----------------------------------------------------------------------------
(* Bounds of the model *)

\* input() calls allowed in one run (caps the re-ask loop of _prompt_for_parameter)
MaxAsks == 2
\* command lines in a generated script
MaxCmds == 2

-----------------------------------------------------------------------------
(* Python values *)

None == [t |-> "none", n |-> 0, s |-> <<>>]
MkFloat(k) == [t |-> "float", n |-> k, s |-> <<>>]
MkInt(k) == [t |-> "int", n |-> k, s |-> <<>>]
MkStr(text) == [t |-> "str", n |-> 0, s |-> text]

\* numeric literals of the model and the number each denotes
NumVal(sym) ==
    CASE sym = "0" -> 0 [] sym = "1" -> 1 [] sym = "2" -> 2 [] sym = "4" -> 4
      [] sym = "5" -> 5 [] sym = "10" -> 10 [] sym = "20" -> 20
      [] sym = "5.0" -> 5 [] sym = "10.0" -> 10 [] sym = "20.0" -> 20
      [] sym = "-5" -> 0 - 5
      [] OTHER -> 0

IntLiterals == {"0", "1", "2", "4", "5", "10", "20"}
DecimalLiterals == {"5.0", "10.0", "20.0"}
SignedLiterals == {"-5"}

\* str.replace('.', '', 1).isdigit(): digits with at most one point, no sign
isdigit(text) == Len(text) = 1 /\ text[1] \in IntLiterals \cup DecimalLiterals

\* float(text) succeeds / int(text) succeeds
FloatParses(text) ==
    Len(text) = 1 /\ text[1] \in IntLiterals \cup DecimalLiterals \cup SignedLiterals
IntParses(text) == Len(text) = 1 /\ text[1] \in IntLiterals \cup SignedLiterals

\* float(v) and int(v): [ok, v] or the exception raised
float(v) ==
    CASE v.t = "float" -> [ok |-> TRUE, v |-> v, exc |-> ""]
      [] v.t = "int" -> [ok |-> TRUE, v |-> MkFloat(v.n), exc |-> ""]
      [] v.t = "str" ->
            IF FloatParses(v.s)
            THEN [ok |-> TRUE, v |-> MkFloat(NumVal(v.s[1])), exc |-> ""]
            ELSE [ok |-> FALSE, v |-> v, exc |-> "ValueError"]
      [] OTHER -> [ok |-> FALSE, v |-> v, exc |-> "TypeError"]

int(v) ==
    CASE v.t = "int" -> [ok |-> TRUE, v |-> v, exc |-> ""]
      [] v.t = "float" -> [ok |-> TRUE, v |-> MkInt(v.n), exc |-> ""]
      [] v.t = "str" ->
            IF IntParses(v.s)
            THEN [ok |-> TRUE, v |-> MkInt(NumVal(v.s[1])), exc |-> ""]
            ELSE [ok |-> FALSE, v |-> v, exc |-> "ValueError"]
      [] OTHER -> [ok |-> FALSE, v |-> v, exc |-> "TypeError"]

\* dict helpers: a parameter map is a function from its keys
EmptyMap == [k \in {} |-> None]
Put(m, k, v) == [x \in (DOMAIN m) \cup {k} |-> IF x = k THEN v ELSE m[x]]
Pop(m, k) == [x \in (DOMAIN m) \ {k} |-> m[x]]

-----------------------------------------------------------------------------
(* Text *)

Punct == {"(", ")", ",", " ", "=", "deg", "+", "/"}
IsWord(sym) == sym \notin Punct

RECURSIVE Join(_)
Join(text) == IF text = <<>> THEN "" ELSE Head(text) \o Join(Tail(text))

count(text, sym) == Cardinality({i \in 1..Len(text) : text[i] = sym})

\* first / last position of sym in text, 0 when absent
find(text, sym) ==
    IF \E i \in 1..Len(text) : text[i] = sym
    THEN CHOOSE i \in 1..Len(text) :
            text[i] = sym /\ \A j \in 1..(i - 1) : text[j] # sym
    ELSE 0
rfind(text, sym) ==
    IF \E i \in 1..Len(text) : text[i] = sym
    THEN CHOOSE i \in 1..Len(text) :
            text[i] = sym /\ \A j \in (i + 1)..Len(text) : text[j] # sym
    ELSE 0

\* str.strip(chars) on symbols: drop leading and trailing symbols that are in chars
RECURSIVE lstrip(_, _)
lstrip(text, chars) ==
    IF text # <<>> /\ Head(text) \in chars THEN lstrip(Tail(text), chars) ELSE text
RECURSIVE rstrip(_, _)
rstrip(text, chars) ==
    IF text # <<>> /\ text[Len(text)] \in chars
    THEN rstrip(SubSeq(text, 1, Len(text) - 1), chars) ELSE text
strip(text, chars) == rstrip(lstrip(text, chars), chars)

\* str.lower() on symbols
lower_sym(sym) ==
    CASE sym = "MEANDR" -> "meandr" [] sym = "SPIRAL" -> "spiral" [] OTHER -> sym
lower(text) == [i \in 1..Len(text) |-> lower_sym(text[i])]

\* keyword in text: the keyword is a substring
contains(text, kw) == \E i \in 1..Len(text) : text[i] = kw

-----------------------------------------------------------------------------
(* analyzator.py: Lexical *)

isvariable(token) == count(token, "=") > 0

isfunction(token) ==
    /\ count(token, "(") > 0
    /\ \/ count(token, "(") > count(token, ")")
       \/ /\ count(token, "(") = count(token, ")")
          \* token[token.rfind(")") - 1]: index -1 wraps to the last character
          /\ LET p == rfind(token, ")")
             IN  (IF p > 1 THEN token[p - 1] ELSE token[Len(token)]) = ")"

iscondition(token) ==
    LET t == strip(token, {" "}) IN t # <<>> /\ t[1] = "sobytie"

\* mutant: a call is looked for before an assignment
check_type_function_first(token) ==
    IF isfunction(token) THEN "function"
    ELSE IF isvariable(token) THEN "variable"
    ELSE IF iscondition(token) THEN "condition"
    ELSE "addition"

check_type(token) ==
    IF isvariable(token) THEN "variable"
    ELSE IF isfunction(token) THEN "function"
    ELSE IF iscondition(token) THEN "condition"
    ELSE "addition"

-----------------------------------------------------------------------------
(* analyzator.py: Variables *)

\* mutant: a name that is bound keeps its first value
set_raw_variable_first_wins(vars_, raw_variable) ==
    LET p == find(raw_variable, "=")
        name == Join(strip(SubSeq(raw_variable, 1, p - 1), {" "}))
        value == strip(SubSeq(raw_variable, p + 1, Len(raw_variable)), {" "})
    IN  IF name \in DOMAIN vars_ THEN vars_ ELSE Put(vars_, name, MkStr(value))

\* set_raw_variable: split on the first '=', strip both sides, store the raw text
set_raw_variable(vars_, raw_variable) ==
    LET p == find(raw_variable, "=")
        name == Join(strip(SubSeq(raw_variable, 1, p - 1), {" "}))
        value == strip(SubSeq(raw_variable, p + 1, Len(raw_variable)), {" "})
    IN  Put(vars_, name, MkStr(value))

\* Python's eval() on the texts of the model: a numeric literal, a name, or
\* `x + y` / `x / y` with blanks around the operator.  eval() looks names up in the
\* globals of analyzator.py, where no script variable is bound: a name is a NameError.
\* Any other text does not evaluate (SyntaxError, or NameError for a list of names).
Literals == IntLiterals \cup DecimalLiterals \cup SignedLiterals
Number(sym) ==
    IF sym \in DecimalLiterals THEN MkFloat(NumVal(sym)) ELSE MkInt(NumVal(sym))

eval(text) ==
    IF Len(text) = 1 /\ text[1] \in Literals
    THEN [ok |-> TRUE, v |-> Number(text[1]), exc |-> ""]
    ELSE IF Len(text) = 1 /\ IsWord(text[1])
    THEN [ok |-> FALSE, v |-> None, exc |-> "NameError"]
    ELSE IF Len(text) = 5 /\ text[2] = " " /\ text[4] = " " /\ text[3] \in {"+", "/"}
            /\ IsWord(text[1]) /\ IsWord(text[5])
    THEN IF text[1] \notin Literals \/ text[5] \notin Literals
         THEN [ok |-> FALSE, v |-> None, exc |-> "NameError"]
         ELSE LET x == Number(text[1])
                  y == Number(text[5])
              IN  IF text[3] = "+"
                  THEN [ok |-> TRUE, exc |-> "",
                        v |-> IF x.t = "int" /\ y.t = "int"
                              THEN MkInt(x.n + y.n) ELSE MkFloat(x.n + y.n)]
                  ELSE IF y.n = 0
                  THEN [ok |-> FALSE, v |-> None, exc |-> "ZeroDivisionError"]
                  ELSE [ok |-> TRUE, v |-> MkFloat(x.n \div y.n), exc |-> ""]
    ELSE [ok |-> FALSE, v |-> None, exc |-> "SyntaxError"]

\* get_variable: eval() of the stored text; NameError / SyntaxError give the text,
\* any other exception of eval() leaves get_variable
get_variable(vars_, name) ==
    IF name \notin DOMAIN vars_ THEN [ok |-> TRUE, v |-> None, exc |-> ""]
    ELSE LET value == vars_[name]
         IN  IF value.t # "str" THEN [ok |-> TRUE, v |-> value, exc |-> ""]
             ELSE IF eval(value.s).ok THEN eval(value.s)
             ELSE IF eval(value.s).exc \in {"NameError", "SyntaxError"}
             THEN [ok |-> TRUE, v |-> value, exc |-> ""]
             ELSE [ok |-> FALSE, v |-> value, exc |-> eval(value.s).exc]

-----------------------------------------------------------------------------
(* analyzator.py: Commands *)

\* raw_command.split('(')[0].strip()
set_title_command(raw_command) ==
    LET p == find(raw_command, "(")
        head == IF p = 0 THEN raw_command ELSE SubSeq(raw_command, 1, p - 1)
    IN  strip(head, {" "})

\* re.findall(r'(\w+)\(([^)]+)\)', body) from position i: the dict of the matches,
\* a later match of the same key overwriting an earlier one
RECURSIVE findall(_, _, _)
findall(body, i, acc) ==
    IF i > Len(body) THEN acc
    ELSE IF IsWord(body[i]) /\ i + 1 <= Len(body) /\ body[i + 1] = "("
         THEN LET rest == SubSeq(body, i + 2, Len(body))
                  q == find(rest, ")")        \* [^)]+ stops at the first ')'
              IN  IF q >= 2
                  THEN LET payload == SubSeq(rest, 1, q - 1)
                           value == IF isdigit(payload)
                                    THEN MkFloat(NumVal(payload[1]))
                                    ELSE MkStr(payload)
                       IN  findall(body, i + 2 + q, Put(acc, body[i], value))
                  ELSE findall(body, i + 1, acc)
         ELSE findall(body, i + 1, acc)

\* set_raw_command: {title: {key: value}}
set_raw_command(raw_command) ==
    LET title == set_title_command(raw_command)
        chars == {title[i] : i \in 1..Len(title)}
        body == strip(raw_command, chars)
    IN  [kind |-> "command", name |-> Join(title), params |-> findall(body, 1, EmptyMap)]

-----------------------------------------------------------------------------
(* analyzator.py: Analyzator *)

\* lexical_analysis: addition lines are joined, with one blank, to the previous token.
\* A token is its type and its text; `lines` (history) counts the lines joined in it.
RECURSIVE lexical_analysis(_, _)
lexical_analysis(lines, toks) ==
    IF lines = <<>> THEN toks
    ELSE LET line == Head(lines)
             token_type == check_type(line)
         IN  IF token_type = "addition" /\ toks # <<>>
             THEN LET last == toks[Len(toks)]
                      merged == [last EXCEPT !.text = last.text \o <<" ">> \o line,
                                             !.lines = last.lines + 1]
                  IN  lexical_analysis(Tail(lines), [toks EXCEPT ![Len(toks)] = merged])
             ELSE lexical_analysis(Tail(lines),
                        Append(toks, [type |-> token_type, text |-> line, lines |-> 1]))

\* the parameters whose value is the name of a variable
substituted(vars_, command) ==
    {p \in DOMAIN command.params :
        command.params[p].t = "str" /\ Join(command.params[p].s) \in DOMAIN vars_}

\* semantic_analysis: a parameter value equal to a variable name becomes its value;
\* an exception of get_variable leaves semantic_analysis
semantic_analysis(vars_, command) ==
    LET value(p) == get_variable(vars_, Join(command.params[p].s))
        raising == {p \in substituted(vars_, command) : ~value(p).ok}
    IN  IF raising # {}
        THEN [ok |-> FALSE, entry |-> command,
              exc |-> value(CHOOSE p \in raising : TRUE).exc]
        ELSE [ok |-> TRUE, exc |-> "",
              entry |-> [command EXCEPT !.params =
                            [p \in DOMAIN command.params |->
                                IF p \in substituted(vars_, command)
                                THEN value(p).v ELSE command.params[p]]]]

syntactic_analysis(vars_, token_type, token) ==
    IF token_type = "function"
    THEN semantic_analysis(vars_, set_raw_command(token))
    ELSE IF token_type = "condition"
    THEN [ok |-> TRUE, exc |-> "",
          entry |-> [kind |-> "condition", name |-> "type", value |-> token]]
    ELSE [ok |-> TRUE, exc |-> "", entry |-> [kind |-> "empty", name |-> ""]]

-----------------------------------------------------------------------------
(* processing.py: ParametersValidator *)

\* PARAM_TYPES
FloatParams == {"shirina", "dlina", "vysota", "glubina", "mezhgals", "radius",
                "skorost", "ugol"}
IntParams == {"linii", "maksimalnoe_vremya", "vremya_bez_svyazi"}
PARAM_TYPES(param_name) ==
    IF param_name \in FloatParams THEN "float"
    ELSE IF param_name \in IntParams THEN "int" ELSE ""

\* PARAM_TYPES[param_name](value)
convert(param_name, value) ==
    IF PARAM_TYPES(param_name) = "float" THEN float(value) ELSE int(value)

\* outcome of one step of _validate_command: the parameter map it leaves, the
\* parameter it calls _prompt_for_parameter for ("" none), the exception it raises
Outcome(params, ask, exc) == [params |-> params, ask |-> ask, exc |-> exc]

\* first name of the list that is no key of params, "" when there is none
RECURSIVE first_missing(_, _)
first_missing(names, params) ==
    IF names = <<>> THEN ""
    ELSE IF Head(names) \notin DOMAIN params THEN Head(names)
    ELSE first_missing(Tail(names), params)

\* the dependent parameters of every TrajectoryDependent keyword found in the text
RECURSIVE dependent_params(_, _)
dependent_params(items, trajectory) ==
    IF items = <<>> THEN <<>>
    ELSE (IF contains(trajectory, Head(items).traj) THEN Head(items).params ELSE <<>>)
            \o dependent_params(Tail(items), trajectory)

_process_point_survey(rls, params) ==
    IF "traektoriya" \notin DOMAIN params
    THEN Outcome(params, "traektoriya", "")
    ELSE IF "obsledovanie_tochki" \in DOMAIN rls.trajectory_dependent
    THEN IF params["traektoriya"].t # "str"
         THEN Outcome(params, "", "AttributeError")     \* float has no lower()
         ELSE LET trajectory == lower(params["traektoriya"].s)
                  deps == dependent_params(
                            rls.trajectory_dependent["obsledovanie_tochki"], trajectory)
              IN  Outcome(params, first_missing(deps, params), "")
    ELSE Outcome(params, "", "")

\* mutant: a lone depth becomes the height |d|
_process_height_depth_positive(rls, cmd_name, params) ==
    LET has_height == "vysota" \in DOMAIN params
        has_depth == "glubina" \in DOMAIN params
    IN  IF has_height /\ has_depth
        THEN Outcome(Pop(params, "glubina"), "", "")
        ELSE IF has_depth
        THEN LET d == float(params["glubina"])
                 absd == IF d.v.n < 0 THEN 0 - d.v.n ELSE d.v.n
             IN  IF d.ok
                 THEN Outcome(Pop(Put(params, "vysota", MkFloat(absd)), "glubina"), "", "")
                 ELSE Outcome(params, "", d.exc)
        ELSE IF ~has_height
        THEN IF cmd_name \in DOMAIN rls.required_keys
                /\ \E i \in 1..Len(rls.required_keys[cmd_name]) :
                        rls.required_keys[cmd_name][i] = "vysota"
             THEN Outcome(params, "vysota", "")
             ELSE Outcome(params, "", "")
        ELSE Outcome(params, "", "")

\* mutant: with both present the height is dropped and the depth kept
_process_height_depth_keep_depth(rls, cmd_name, params) ==
    LET has_height == "vysota" \in DOMAIN params
        has_depth == "glubina" \in DOMAIN params
    IN  IF has_height /\ has_depth
        THEN Outcome(Pop(params, "vysota"), "", "")
        ELSE IF has_depth
        THEN LET d == float(params["glubina"])
                 absd == IF d.v.n < 0 THEN 0 - d.v.n ELSE d.v.n
             IN  IF d.ok
                 THEN Outcome(Pop(Put(params, "vysota", MkFloat(0 - absd)), "glubina"),
                              "", "")
                 ELSE Outcome(params, "", d.exc)
        ELSE IF ~has_height
        THEN IF cmd_name \in DOMAIN rls.required_keys
                /\ \E i \in 1..Len(rls.required_keys[cmd_name]) :
                        rls.required_keys[cmd_name][i] = "vysota"
             THEN Outcome(params, "vysota", "")
             ELSE Outcome(params, "", "")
        ELSE Outcome(params, "", "")

_process_height_depth(rls, cmd_name, params) ==
    LET has_height == "vysota" \in DOMAIN params
        has_depth == "glubina" \in DOMAIN params
    IN  IF has_height /\ has_depth
        THEN Outcome(Pop(params, "glubina"), "", "")
        ELSE IF has_depth
        THEN LET d == float(params["glubina"])
                 absd == IF d.v.n < 0 THEN 0 - d.v.n ELSE d.v.n
             IN  IF d.ok
                 THEN Outcome(Pop(Put(params, "vysota", MkFloat(0 - absd)), "glubina"),
                              "", "")
                 ELSE Outcome(params, "", d.exc)
        ELSE IF ~has_height
        THEN IF cmd_name \in DOMAIN rls.required_keys
                /\ \E i \in 1..Len(rls.required_keys[cmd_name]) :
                        rls.required_keys[cmd_name][i] = "vysota"
             THEN Outcome(params, "vysota", "")
             ELSE Outcome(params, "", "")
        ELSE Outcome(params, "", "")

\* mutant: only the first required name is looked at
_check_required_parameters_first_only(rls, cmd_name, params) ==
    IF cmd_name \notin DOMAIN rls.required_keys THEN Outcome(params, "", "")
    ELSE Outcome(params,
                 first_missing(SubSeq(rls.required_keys[cmd_name], 1, 1), params), "")

_check_required_parameters(rls, cmd_name, params) ==
    IF cmd_name \notin DOMAIN rls.required_keys THEN Outcome(params, "", "")
    ELSE Outcome(params, first_missing(rls.required_keys[cmd_name], params), "")

\* mutant: a default replaces the value of a parameter that is present
_apply_optional_parameters_overwrite(rls, cmd_name, params) ==
    IF cmd_name \notin DOMAIN rls.optional_keys THEN Outcome(params, "", "")
    ELSE LET opt == rls.optional_keys[cmd_name]
         IN  Outcome([p \in (DOMAIN params) \cup (DOMAIN opt) |->
                        IF p \in DOMAIN opt THEN opt[p] ELSE params[p]], "", "")

_apply_optional_parameters(rls, cmd_name, params) ==
    IF cmd_name \notin DOMAIN rls.optional_keys THEN Outcome(params, "", "")
    ELSE LET opt == rls.optional_keys[cmd_name]
         IN  Outcome([p \in (DOMAIN params) \cup (DOMAIN opt) |->
                        IF p \in DOMAIN params THEN params[p] ELSE opt[p]], "", "")

\* mutant: text is passed over like None, never converted
convert_one_skips_text(param_name, value) ==
    IF PARAM_TYPES(param_name) = "" \/ value.t \in {"none", "str"}
        \/ value.t = PARAM_TYPES(param_name)
    THEN [ok |-> TRUE, v |-> value, exc |-> ""]
    ELSE convert(param_name, value)

\* one parameter of _convert_parameter_types: None and values of the type are kept
convert_one(param_name, value) ==
    IF PARAM_TYPES(param_name) = "" \/ value.t = "none"
        \/ value.t = PARAM_TYPES(param_name)
    THEN [ok |-> TRUE, v |-> value, exc |-> ""]
    ELSE convert(param_name, value)

_convert_parameter_types(params) ==
    IF \E p \in DOMAIN params : ~convert_one(p, params[p]).ok
    THEN Outcome(params, "", "ValueError")
    ELSE Outcome([p \in DOMAIN params |-> convert_one(p, params[p]).v], "", "")

\* what the operator may type at input()
InputTexts == { <<"5">>, <<"5.0">>, <<"abc">>, <<>>, <<"spiral">> }

\* _prompt_for_parameter on one line of input: the value returned, or ValueError
prompt_value(param_name, text) ==
    IF PARAM_TYPES(param_name) # "" THEN convert(param_name, MkStr(text))
    ELSE [ok |-> TRUE, v |-> MkStr(text), exc |-> ""]

-----------------------------------------------------------------------------
(* _validate_command, step by step; it blocks only in input() *)

Entry == result[vi]
IsCommand(e) == e.kind = "command"
SetParams(params) == [result EXCEPT ![vi].params = params]

Fail(exc) ==
    /\ phase' = "failed"
    /\ err' = exc
    /\ UNCHANGED <<result, vi, pc, asking>>

\* apply a step's outcome: raise, call the prompt, or go on to the step `next`
Apply(out, next) ==
    IF out.exc # "" THEN Fail(out.exc)
    ELSE IF out.ask # ""
    THEN /\ asking' = out.ask
         /\ result' = SetParams(out.params)
         /\ UNCHANGED <<phase, vi, pc, err>>
    ELSE /\ result' = SetParams(out.params)
         /\ pc' = next
         /\ UNCHANGED <<phase, vi, asking, err>>

Stepping(step) == phase = "validate" /\ pc = step /\ asking = ""

\* lines 50-55: unpack the entry, then the point-survey bootstrap
StepPointSurvey ==
    /\ Stepping("point_survey")
    /\ IF Entry.kind = "empty" THEN Fail("StopIteration")    \* next(iter({}.items()))
       ELSE IF IsCommand(Entry) /\ Entry.name = "obsledovanie_tochki"
       THEN Apply(_process_point_survey(rules, Entry.params), "height_depth")
       ELSE pc' = "height_depth" /\ UNCHANGED <<phase, result, vi, asking, err>>
    /\ UNCHANGED <<data, rules, asks, tasks, snap, tokens, variables, spiral>>

\* line 58.  A condition record {"type": ..., "value": ...} unpacks to the name
\* "type" and a str: no rule set of the model names "type", so steps 58-60 pass it by.
StepHeightDepth ==
    /\ Stepping("height_depth")
    /\ IF IsCommand(Entry)
       THEN Apply(_process_height_depth(rules, Entry.name, Entry.params), "required")
       ELSE pc' = "required" /\ UNCHANGED <<phase, result, vi, asking, err>>
    /\ UNCHANGED <<data, rules, asks, tasks, snap, tokens, variables, spiral>>

\* line 59
StepRequired ==
    /\ Stepping("required")
    /\ IF IsCommand(Entry)
       THEN Apply(_check_required_parameters(rules, Entry.name, Entry.params), "optional")
       ELSE pc' = "optional" /\ UNCHANGED <<phase, result, vi, asking, err>>
    /\ UNCHANGED <<data, rules, asks, tasks, snap, tokens, variables, spiral>>

\* line 60
StepOptional ==
    /\ Stepping("optional")
    /\ IF IsCommand(Entry)
       THEN Apply(_apply_optional_parameters(rules, Entry.name, Entry.params), "convert")
       ELSE pc' = "convert" /\ UNCHANGED <<phase, result, vi, asking, err>>
    /\ UNCHANGED <<data, rules, asks, tasks, snap, tokens, variables, spiral>>

\* lines 63-65, and validate()'s move to the next command or its return
StepConvert ==
    /\ Stepping("convert")
    /\ IF ~IsCommand(Entry) THEN Fail("AttributeError")     \* str has no items()
       ELSE LET out == _convert_parameter_types(Entry.params)
            IN  IF out.exc # "" THEN Fail(out.exc)
                ELSE /\ result' = SetParams(out.params)
                     /\ IF vi < Len(result)
                        THEN vi' = vi + 1 /\ pc' = "point_survey" /\ phase' = phase
                        ELSE vi' = vi /\ pc' = "" /\ phase' = "validated"
                     /\ UNCHANGED <<asking, err>>
    /\ UNCHANGED <<data, rules, asks, tasks, snap, tokens, variables, spiral>>

\* _prompt_for_parameter: input() returns a line the parameter's type accepts
PromptReturn ==
    /\ phase \in {"validate", "normalize"} /\ asking # ""
    /\ \E text \in InputTexts :
        /\ prompt_value(asking, text).ok
        /\ result' = SetParams(Put(Entry.params, asking, prompt_value(asking, text).v))
    /\ asking' = ""
    /\ asks' = asks + 1
    /\ UNCHANGED <<data, rules, phase, vi, pc, err, tasks, snap, tokens, variables, spiral>>

\* _prompt_for_parameter: the line does not convert; ValueError is caught, ask again
PromptRetry ==
    /\ phase \in {"validate", "normalize"} /\ asking # ""
    /\ asks < MaxAsks
    /\ \E text \in InputTexts : ~prompt_value(asking, text).ok
    /\ asks' = asks + 1
    /\ UNCHANGED <<data, rules, phase, result, vi, pc, asking, err, tasks, snap, tokens, variables, spiral>>

\* _prompt_for_parameter: input() raises (end of input); nothing catches EOFError
PromptRaise ==
    /\ phase \in {"validate", "normalize"} /\ asking # ""
    /\ phase' = "failed"
    /\ err' = "EOFError"
    /\ asks' = asks + 1
    /\ UNCHANGED <<data, rules, result, vi, pc, asking, tasks, snap, tokens, variables, spiral>>

ValidatorNext ==
    \/ StepPointSurvey
    \/ StepHeightDepth
    \/ StepRequired
    \/ StepOptional
    \/ StepConvert
    \/ PromptReturn
    \/ PromptRetry
    \/ PromptRaise

-----------------------------------------------------------------------------
(* trajectories.py.  A coordinate is kept symbolically as                  *)
(*   deg + m half-metres + r * cos/sin(ang)                                *)
(* (deg: decimal degrees; m: a metric displacement added by                *)
(* add_meters_to_coordinates, in half-metres; r, ang: a polar displacement *)
(* in the generator's own radius unit and angular step).  A waypoint is    *)
(* the pair <<lon, lat>>.  Rounding to 6 decimals is not represented.      *)

Coord(deg, m, ang, r) == [deg |-> deg, m |-> m, ang |-> ang, r |-> r]
Deg(d) == Coord(d, 0, 0, 0)

\* text.split(sep) for a one- or two-symbol separator given as a sequence
RECURSIVE split(_, _)
split(text, sep) ==
    LET n == Len(sep)
        hits == {i \in 1..(Len(text) - n + 1) : SubSeq(text, i, i + n - 1) = sep}
    IN  IF hits = {} THEN <<text>>
        ELSE LET i == CHOOSE h \in hits : \A g \in hits : h <= g
             IN  <<SubSeq(text, 1, i - 1)>> \o split(SubSeq(text, i + n, Len(text)), sep)

\* GeoCoordinateConverter.parse_coordinate; the model's texts carry no minute or
\* second sign, so the branch to dms_to_decimal is not taken
parse_coordinate(coord_str) ==
    IF ~contains(coord_str, "deg")
    THEN [ok |-> FALSE, v |-> 0, exc |-> "ValueError"]   \* missing degree symbol
    ELSE LET p == find(coord_str, "deg")
             number == strip(SubSeq(coord_str, 1, p - 1), {" "})
             direction == Join(strip(SubSeq(coord_str, p + 1, Len(coord_str)), {" "}))
         IN  IF ~FloatParses(number)
             THEN [ok |-> FALSE, v |-> 0, exc |-> "ValueError"]
             ELSE [ok |-> TRUE, exc |-> "",
                   v |-> NumVal(number[1])
                            * (IF direction \in {"ZD", "YuSh", "W", "S"} THEN 0 - 1 ELSE 1)]

\* TrajectoryGenerator.add_meters_to_coordinates, displacements in half-metres:
\* returns (lon, lat); at |lat| >= 90 the longitude is left alone
add_meters_to_coordinates(lat, lon, meters_north, meters_east) ==
    IF lat.deg >= 90 \/ lat.deg <= 0 - 90
    THEN <<lon, [lat EXCEPT !.m = @ + meters_north]>>
    ELSE <<[lon EXCEPT !.m = @ + meters_east], [lat EXCEPT !.m = @ + meters_north]>>

\* add_meters_to_coordinates(lat, lon, r * sin(ang), r * cos(ang))
add_polar(lat, lon, ang, r) ==
    IF lat.deg >= 90 \/ lat.deg <= 0 - 90
    THEN <<lon, [lat EXCEPT !.ang = ang, !.r = r]>>
    ELSE <<[lon EXCEPT !.ang = ang, !.r = r], [lat EXCEPT !.ang = ang, !.r = r]>>

Abs(k) == IF k < 0 THEN 0 - k ELSE k
Max(a, b) == IF a >= b THEN a ELSE b

\* max(1, int(steps / spacing_m)); int() truncates toward zero
num_passes_of(steps, spacing_m) ==
    IF (steps >= 0) = (spacing_m > 0)
    THEN Max(1, Abs(steps) \div Abs(spacing_m)) ELSE 1

\* BaseMeanderGenerator._generate_meander_segment, lengths in metres
RECURSIVE meander_passes(_, _, _, _, _, _, _)
meander_passes(i, num_passes, start_lon, start_lat, size, spacing_m, is_vertical) ==
    IF i > num_passes THEN <<>>
    ELSE LET offset == 2 * i * spacing_m
             sz == 2 * size
             pts ==
               IF is_vertical
               THEN LET current == add_meters_to_coordinates(start_lat, start_lon, 0, offset)
                    IN  IF i % 2 = 0
                        THEN <<current,
                               add_meters_to_coordinates(current[2], current[1], sz, 0)>>
                        ELSE <<add_meters_to_coordinates(start_lat, start_lon, sz, offset),
                               current>>
               ELSE LET current == add_meters_to_coordinates(start_lat, start_lon, offset, 0)
                    IN  IF i % 2 = 0
                        THEN <<current,
                               add_meters_to_coordinates(current[2], current[1], 0, sz)>>
                        ELSE <<add_meters_to_coordinates(start_lat, start_lon, offset, sz),
                               current>>
         IN  pts \o meander_passes(i + 1, num_passes, start_lon, start_lat, size,
                                   spacing_m, is_vertical)

_generate_meander_segment(start_lon, start_lat, width_m, length_m, spacing_m, direction) ==
    LET is_vertical == direction = <<"vertikalno">>
        size == IF is_vertical THEN length_m ELSE width_m
        steps == IF is_vertical THEN width_m ELSE length_m
    IN  meander_passes(0, num_passes_of(steps, spacing_m), start_lon, start_lat, size,
                       spacing_m, is_vertical)

\* MeanderGenerator.generate_meander (angle_deg = 0: no rotation)
generate_meander(start_lon, start_lat, width_m, length_m, spacing_m, direction) ==
    _generate_meander_segment(start_lon, start_lat, width_m, length_m, spacing_m, direction)

\* CenteredMeanderGenerator.generate_centered_meander (angle_deg = 0)
generate_centered_meander(center_lon, center_lat, width_m, length_m, spacing_m, direction) ==
    LET start == add_meters_to_coordinates(center_lat, center_lon,
                                           0 - length_m, 0 - width_m)
        points == _generate_meander_segment(start[1], start[2], width_m, length_m,
                                            spacing_m, direction)
    IN  IF points # <<>> THEN Tail(points) ELSE points

\* SpiralGenerator.generate_spiral for spacing_m > 0: step k has radius k * spacing/16
\* (r counts sixteenths of the spacing) and angle direction * k * pi/8
RECURSIVE spiral_loop(_, _, _, _, _, _, _)
spiral_loop(k, points, center_lon, center_lat, max_radius_m, spacing_m, args) ==
    \* while radius <= max_radius_m, radius being (k - 1) * spacing_m / 16
    IF (k - 1) * spacing_m > 16 * max_radius_m THEN points
    ELSE LET p == add_polar(center_lat, center_lon, args.direction * k, k)
         IN  spiral_loop(k + 1,
                         IF Len(points) % args.point_freq = 0
                         THEN Append(points, p) ELSE points,
                         center_lon, center_lat, max_radius_m, spacing_m, args)

generate_spiral(center_lon, center_lat, max_radius_m, spacing_m, clockwise, point_freq) ==
    spiral_loop(1, <<<<center_lon, center_lat>>>>, center_lon, center_lat, max_radius_m,
                spacing_m,
                [direction |-> IF clockwise THEN 1 ELSE 0 - 1, point_freq |-> point_freq])

\* mutant: the rays are drawn tip to tip, the center comes once at the end
RECURSIVE star_rays_no_return(_, _, _, _, _, _)
star_rays_no_return(i, center_lon, center_lat, radius_m, num_lines, line_length) ==
    IF i >= num_lines THEN <<<<center_lon, center_lat>>>>
    ELSE LET outer == <<[center_lon EXCEPT !.ang = 2 * i, !.r = line_length],
                        [center_lat EXCEPT !.ang = 2 * i, !.r = line_length]>>
             inner == <<[center_lon EXCEPT !.ang = 2 * i + 1, !.r = radius_m],
                        [center_lat EXCEPT !.ang = 2 * i + 1, !.r = radius_m]>>
         IN  (IF radius_m > 0 THEN <<outer, inner>> ELSE <<outer>>)
                \o star_rays_no_return(i + 1, center_lon, center_lat, radius_m, num_lines,
                                       line_length)

\* StarGenerator.generate_star for num_lines >= 2: ang counts halves of angle_step
RECURSIVE star_rays(_, _, _, _, _, _)
star_rays(i, center_lon, center_lat, radius_m, num_lines, line_length) ==
    IF i >= num_lines THEN <<>>
    ELSE LET outer == <<[center_lon EXCEPT !.ang = 2 * i, !.r = line_length],
                        [center_lat EXCEPT !.ang = 2 * i, !.r = line_length]>>
             inner == <<[center_lon EXCEPT !.ang = 2 * i + 1, !.r = radius_m],
                        [center_lat EXCEPT !.ang = 2 * i + 1, !.r = radius_m]>>
         IN  (IF radius_m > 0 THEN <<outer, inner>> ELSE <<outer>>)
                \o <<<<center_lon, center_lat>>>>
                \o star_rays(i + 1, center_lon, center_lat, radius_m, num_lines, line_length)

generate_star(center_lon, center_lat, radius_m, num_lines, line_length) ==
    star_rays(0, center_lon, center_lat, radius_m, num_lines, line_length)

\* RosetteGenerator.generate_rosette: ang counts steps of pi / num_passes
RECURSIVE generate_rosette(_, _, _, _, _)
generate_rosette(i, center_lon, center_lat, radius_m, num_passes) ==
    IF i >= num_passes THEN <<>>
    ELSE << <<[center_lon EXCEPT !.ang = i, !.r = radius_m],
              [center_lat EXCEPT !.ang = i, !.r = radius_m]>>,
            <<center_lon, center_lat>> >>
            \o generate_rosette(i + 1, center_lon, center_lat, radius_m, num_passes)

\* mutant: the command kind is not looked at
_get_trajectory_type_any_kind(key, params) ==
    LET traj == lower(split(IF "traektoriya" \in DOMAIN params
                            THEN params["traektoriya"].s ELSE <<>>, <<",">>)[1])
    IN  IF contains(traj, "meandr") THEN "meandr"
        ELSE IF contains(traj, "spiral") THEN "spiral"
        ELSE IF contains(traj, "zvezda") THEN "zvezda"
        ELSE IF contains(traj, "rozetka") \/ contains(traj, "veer") THEN "rozetka"
        ELSE "None"

\* Figure._get_trajectory_type, the key being a key of the command
_get_trajectory_type(key, params) ==
    LET traj == lower(split(IF "traektoriya" \in DOMAIN params
                            THEN params["traektoriya"].s ELSE <<>>, <<",">>)[1])
    IN  IF contains(traj, "meandr") /\ key = "obsledovanie_tochki"
        THEN "centralnyi_meandr"
        ELSE IF contains(traj, "meandr") THEN "meandr"
        ELSE IF contains(traj, "spiral") THEN "spiral"
        ELSE IF contains(traj, "zvezda") THEN "zvezda"
        ELSE IF contains(traj, "rozetka") \/ contains(traj, "veer") THEN "rozetka"
        ELSE "None"

Points(points) == [ok |-> TRUE, points |-> points, exc |-> ""]
Raise(exc) == [ok |-> FALSE, points |-> <<>>, exc |-> exc]

\* params.get(name, default) as a number
get_n(params, name, default) == IF name \in DOMAIN params THEN params[name].n ELSE default

\* Figure.coordinates, lines 441-485: the call of the generator the trajectory type
\* selects (no "ugol" parameter in the model's commands: angle 0)
generate(trajectory_type, params, lon, lat) ==
         IF trajectory_type = "None" THEN Points(<<>>)
         ELSE IF trajectory_type \in {"meandr", "centralnyi_meandr"}
         THEN IF {"dlina", "shirina", "mezhgals"} \ DOMAIN params # {}
              THEN Raise("KeyError")
              ELSE IF Len(split(params["traektoriya"].s, <<",", " ">>)) < 2
              THEN Raise("IndexError")
              ELSE IF params["mezhgals"].n = 0 THEN Raise("ZeroDivisionError")
              ELSE LET direction == split(params["traektoriya"].s, <<",", " ">>)[2]
                   IN  \* positional call: width_m <- dlina, length_m <- shirina
                       IF trajectory_type = "meandr"
                       THEN Points(generate_meander(Deg(lon), Deg(lat),
                                params["dlina"].n, params["shirina"].n,
                                params["mezhgals"].n, direction))
                       ELSE Points(generate_centered_meander(Deg(lon), Deg(lat),
                                params["dlina"].n, params["shirina"].n,
                                params["mezhgals"].n, direction))
         ELSE IF trajectory_type = "spiral"
         THEN IF {"radius", "mezhgals"} \ DOMAIN params # {} THEN Raise("KeyError")
              ELSE IF params["mezhgals"].n = 0 THEN Raise("ZeroDivisionError")
              ELSE Points(generate_spiral(Deg(lon), Deg(lat), params["radius"].n,
                            params["mezhgals"].n,
                            "napravlenie" \in DOMAIN params
                              /\ lower(params["napravlenie"].s)
                                    = <<"protiv", " ", "chasovoi">>,
                            1))
         ELSE IF trajectory_type = "zvezda"
         THEN IF get_n(params, "linii", 5) < 2 THEN Raise("ValueError")
              ELSE Points(generate_star(Deg(lon), Deg(lat), get_n(params, "radius", 10),
                            get_n(params, "linii", 5), get_n(params, "dlina_lucha", 20)))
         ELSE IF "prohody" \in DOMAIN params /\ params["prohody"].t # "int"
              THEN Raise("TypeError")                   \* range() of a float
              ELSE Points(generate_rosette(0, Deg(lon), Deg(lat),
                            get_n(params, "radius", 10), get_n(params, "prohody", 6)))

\* Figure.coordinates
coordinates(key, params, lon, lat) ==
    IF "traektoriya" \in DOMAIN params /\ params["traektoriya"].t # "str"
    THEN Raise("AttributeError")                        \* float has no split()
    ELSE generate(_get_trajectory_type(key, params), params, lon, lat)

\* main.py lines 31-40 for one entry: the entry with its waypoints attached
SURVEYS == {"obsledovanie_figury", "obsledovanie_tochki", "obsledovanie_linii"}
Waypoints(points) == [t |-> "dict", n |-> 0, s |-> points]

attach(entry) ==
    IF entry.kind # "command" \/ entry.name \notin SURVEYS
        \/ "koordinaty" \notin DOMAIN entry.params
    THEN [ok |-> TRUE, entry |-> entry, exc |-> ""]
    ELSE IF entry.params["koordinaty"].t # "str"
    THEN [ok |-> FALSE, entry |-> entry, exc |-> "AttributeError"]
    ELSE LET parts == split(entry.params["koordinaty"].s, <<",", " ">>)
         IN  IF Len(parts) # 2
             THEN [ok |-> FALSE, entry |-> entry, exc |-> "ValueError"]  \* unpacking
             ELSE LET lon == parse_coordinate(parts[1])
                      lat == parse_coordinate(parts[2])
                  IN  IF ~lon.ok \/ ~lat.ok
                      THEN [ok |-> FALSE, entry |-> entry, exc |-> "ValueError"]
                      ELSE LET c == coordinates(entry.name, entry.params, lon.v, lat.v)
                           IN  IF ~c.ok THEN [ok |-> FALSE, entry |-> entry, exc |-> c.exc]
                               ELSE [ok |-> TRUE, exc |-> "",
                                     entry |-> [entry EXCEPT !.params["koordinaty"] =
                                                    Waypoints(c.points)]]

RECURSIVE attach_all(_, _)
attach_all(entries, done) ==
    IF entries = <<>> THEN [ok |-> TRUE, entries |-> done, exc |-> ""]
    ELSE LET a == attach(Head(entries))
         IN  IF ~a.ok THEN [ok |-> FALSE, entries |-> done \o entries, exc |-> a.exc]
             ELSE attach_all(Tail(entries), Append(done, a.entry))

-----------------------------------------------------------------------------
(* translators.py: Translator *)

\* Python's None, as an entry of the task list
null == [id |-> "None"]

\* Translator.action: the instrument record for (device, status), None when no
\* branch returns
action(device, status) ==
    IF device = MkStr(<<"gbo">>)
    THEN CASE status = "vkl" -> [id |-> "SidesonarOn"]
           [] status = "pauza" -> [id |-> "SidesonarPause"]
           [] status = "prodolzhit" -> [id |-> "SidesonarResume"]
           [] status = "vykl" -> [id |-> "SidesonarOff"]
           [] OTHER -> null
    ELSE IF device = MkStr(<<"mle">>)
    THEN CASE status = "vkl" -> [id |-> "MBEOnHf"]
           [] status = "pauza" -> [id |-> "MBEPause"]
           [] status = "vykl" -> [id |-> "MBEOff"]
           [] OTHER -> null
    ELSE IF device = MkStr(<<"fotokamera">>)
    THEN [id |-> "PhotoOn"]
    ELSE null

\* Translator.movement
movement(depth, speed, lon, lat) ==
    [id |-> "TackPoint", TackPointUp |-> depth, TackPointVelocity |-> speed,
     TackPointLon |-> lon, TackPointLat |-> lat]

\* lines 14-22: a movement and a pause / resume toggle per waypoint
RECURSIVE toggled_moves(_, _, _)
toggled_moves(value, points, device) ==
    IF points = <<>> THEN <<>>
    ELSE <<movement(value["vysota"], value["skorost"], Head(points)[1], Head(points)[2]),
           action(value["pribor"], IF ~device THEN "pauza" ELSE "prodolzhit")>>
            \o toggled_moves(value, Tail(points), ~device)

\* mutant: the waypoints are walked last to first
plain_moves_reversed(value, points) ==
    [k \in 1..Len(points) |->
        movement(value["vysota"], value["skorost"],
                 points[Len(points) + 1 - k][1], points[Len(points) + 1 - k][2])]

\* lines 28-30: a movement per waypoint
plain_moves(value, points) ==
    [k \in 1..Len(points) |->
        movement(value["vysota"], value["skorost"], points[k][1], points[k][2])]

\* mutant: every survey command toggles
toggles_always(key, value) ==
    key \in {"obsledovanie_figury", "obsledovanie_tochki"}

\* line 10: the command takes the toggling branch
toggles(key, value) ==
    key = "obsledovanie_figury"
        \/ (key = "obsledovanie_tochki" /\ value["traektoriya"] = MkStr(<<"meandr">>))

\* the tasks one entry of the command list adds (lines 9-32), or the exception
block(entry) ==
    IF entry.kind # "command" \/ entry.name \notin {"obsledovanie_figury", "obsledovanie_tochki"}
    THEN [ok |-> TRUE, tasks |-> <<>>, exc |-> ""]
    ELSE LET key == entry.name
             value == entry.params
         IN  IF key = "obsledovanie_tochki" /\ "traektoriya" \notin DOMAIN value
             THEN [ok |-> FALSE, tasks |-> <<>>, exc |-> "KeyError"]
             ELSE IF "pribor" \notin DOMAIN value \/ "koordinaty" \notin DOMAIN value
             THEN [ok |-> FALSE, tasks |-> <<>>, exc |-> "KeyError"]
             ELSE IF value["koordinaty"].t # "dict"
             THEN [ok |-> FALSE, tasks |-> <<>>, exc |-> "AttributeError"]
             ELSE IF value["koordinaty"].s # <<>>
                     /\ {"vysota", "skorost"} \ DOMAIN value # {}
             THEN [ok |-> FALSE, tasks |-> <<>>, exc |-> "KeyError"]
             ELSE [ok |-> TRUE, exc |-> "",
                   tasks |-> <<action(value["pribor"], "vkl")>>
                        \o (IF toggles(key, value)
                            THEN toggled_moves(value, value["koordinaty"].s, FALSE)
                            ELSE plain_moves(value, value["koordinaty"].s))
                        \o <<action(value["pribor"], "vykl")>>]

\* Translator.__init__: the blocks of the commands in list order
RECURSIVE translate(_, _)
translate(commands, acc) ==
    IF commands = <<>> THEN [ok |-> TRUE, tasks |-> acc, exc |-> ""]
    ELSE LET b == block(Head(commands))
         IN  IF ~b.ok THEN [ok |-> FALSE, tasks |-> <<>>, exc |-> b.exc]
             ELSE translate(Tail(commands), acc \o b.tasks)

-----------------------------------------------------------------------------
(* main.py *)

\* analyze(), line 229: the lexical analysis of all the lines
LexicalAnalysis ==
    /\ phase = "analyze" /\ pc = ""
    /\ tokens' = lexical_analysis(data, <<>>)
    /\ pc' = "tokens"
    /\ vi' = 1
    /\ UNCHANGED <<data, rules, phase, result, asking, asks, err, tasks, snap, variables, spiral>>

\* analyze(), lines 232-236, for one token: a variable token binds, every other token
\* appends one entry; analyze() runs outside the try block of main.py
AnalyzeToken ==
    /\ phase = "analyze" /\ pc = "tokens" /\ vi <= Len(tokens)
    /\ LET tk == tokens[vi]
           r == syntactic_analysis(variables, tk.type, tk.text)
       IN  IF tk.type = "variable"
           THEN /\ variables' = set_raw_variable(variables, tk.text)
                /\ vi' = vi + 1
                /\ UNCHANGED <<result, phase, err>>
           ELSE IF r.ok
           THEN /\ result' = Append(result, r.entry)
                /\ vi' = vi + 1
                /\ UNCHANGED <<variables, phase, err>>
           ELSE /\ phase' = "crashed"
                /\ err' = r.exc
                /\ UNCHANGED <<variables, result, vi>>
    /\ UNCHANGED <<data, rules, pc, asking, asks, tasks, snap, tokens, spiral>>

\* analyze() returns (line 238); main.py line 19 starts validate()
AnalyzeReturn ==
    /\ phase = "analyze" /\ pc = "tokens" /\ vi > Len(tokens)
    /\ IF result = <<>>
       THEN phase' = "validated" /\ vi' = 0 /\ pc' = ""
       ELSE phase' = "validate" /\ vi' = 1 /\ pc' = "point_survey"
    /\ UNCHANGED <<data, rules, result, asking, asks, err, tasks, snap, tokens, variables, spiral>>

AnalyzerNext ==
    \/ LexicalAnalysis
    \/ AnalyzeToken
    \/ AnalyzeReturn

\* lines 24-29 catch what validate() raised; line 31 then reads the unbound `result`
MainExcept ==
    /\ phase = "failed"
    /\ phase' = "crashed"
    /\ err' = "NameError"
    /\ UNCHANGED <<data, rules, result, vi, pc, asking, asks, tasks, snap, tokens, variables, spiral>>

\* lines 20-40: the result is saved, then every survey gets its waypoints
Trajectories ==
    /\ phase = "validated"
    /\ LET a == attach_all(result, <<>>)
       IN  /\ result' = a.entries
           /\ phase' = IF a.ok THEN "translate" ELSE "crashed"
           /\ err' = a.exc
    /\ UNCHANGED <<data, rules, vi, pc, asking, asks, tasks, snap, tokens, variables, spiral>>

\* line 42: Translator(result)
Translate ==
    /\ phase = "translate"
    /\ LET t == translate(result, <<>>)
       IN  /\ tasks' = t.tasks
           /\ phase' = IF t.ok THEN "done" ELSE "crashed"
           /\ err' = t.exc
    /\ UNCHANGED <<data, rules, result, vi, pc, asking, asks, snap, tokens, variables, spiral>>

-----------------------------------------------------------------------------
(* Inputs: scripts as Parser.get_tokens() hands them over, and rule sets as
   _load_parameters() reads them from the parameters file *)

Param(name, text) == <<name, "(">> \o text \o <<")">>

RECURSIVE Params(_)
Params(ps) ==
    IF Len(ps) = 1 THEN Head(ps) ELSE Head(ps) \o <<",", " ">> \o Params(Tail(ps))

Command(name, ps) == <<name, "(">> \o Params(ps) \o <<")">>

PlainCoords == <<"10.0", " ", "VD", ",", " ", "20.0", " ", "SSh">>
DegreeCoords == <<"10.0", "deg", " ", "VD", ",", " ", "20.0", "deg", " ", "SSh">>

\* the script of the end-to-end scenario
LineScenario ==
    Command("obsledovanie_tochki",
        << Param("pribor", <<"gbo">>), Param("vysota", <<"5">>), Param("skorost", <<"1">>),
           Param("koordinaty", PlainCoords),
           Param("traektoriya", <<"meandr", ",", " ", "vertikalno">>),
           Param("dlina", <<"20">>), Param("shirina", <<"10">>),
           Param("mezhgals", <<"5">>) >>)

\* the same with degree signs in the coordinates
LineScenarioDeg ==
    Command("obsledovanie_tochki",
        << Param("pribor", <<"gbo">>), Param("vysota", <<"5">>), Param("skorost", <<"1">>),
           Param("koordinaty", DegreeCoords),
           Param("traektoriya", <<"meandr", ",", " ", "vertikalno">>),
           Param("dlina", <<"20">>), Param("shirina", <<"10">>),
           Param("mezhgals", <<"5">>) >>)

LineFigure ==
    Command("obsledovanie_figury",
        << Param("pribor", <<"gbo">>), Param("vysota", <<"h">>), Param("skorost", <<"1">>),
           Param("koordinaty", DegreeCoords),
           Param("traektoriya", <<"meandr", ",", " ", "gorizontalno">>),
           Param("dlina", <<"5">>), Param("shirina", <<"10">>),
           Param("mezhgals", <<"5">>) >>)

LineFigureMle ==
    Command("obsledovanie_figury",
        << Param("pribor", <<"mle">>), Param("glubina", <<"5">>), Param("skorost", <<"2">>),
           Param("koordinaty", DegreeCoords),
           Param("traektoriya", <<"MEANDR", ",", " ", "vertikalno">>),
           Param("dlina", <<"5">>), Param("shirina", <<"10">>),
           Param("mezhgals", <<"5">>) >>)

LineStar ==
    Command("obsledovanie_tochki",
        << Param("pribor", <<"fotokamera">>), Param("vysota", <<"5">>),
           Param("skorost", <<"1">>), Param("koordinaty", DegreeCoords),
           Param("traektoriya", <<"zvezda">>), Param("linii", <<"2">>) >>)

LineSpiral ==
    Command("obsledovanie_tochki",
        << Param("pribor", <<"gbo">>), Param("vysota", <<"10">>), Param("skorost", <<"1">>),
           Param("koordinaty", DegreeCoords), Param("traektoriya", <<"spiral">>),
           Param("radius", <<"1">>), Param("mezhgals", <<"5">>) >>)

LineRosette ==
    Command("obsledovanie_tochki",
        << Param("pribor", <<"eholot">>), Param("vysota", <<"5">>), Param("skorost", <<"4">>),
           Param("koordinaty", DegreeCoords), Param("traektoriya", <<"rozetka">>),
           Param("radius", <<"5">>) >>)

\* pattern text exactly "meandr", no coordinates
LineMeanderOnly ==
    Command("obsledovanie_tochki",
        << Param("pribor", <<"gbo">>), Param("vysota", <<"5">>), Param("skorost", <<"1">>),
           Param("traektoriya", <<"meandr">>) >>)

\* no height, an unknown pattern
LineNoHeight ==
    Command("obsledovanie_tochki",
        << Param("pribor", <<"mle">>), Param("skorost", <<"1">>),
           Param("koordinaty", DegreeCoords), Param("traektoriya", <<"krug">>) >>)

LineLine ==
    Command("obsledovanie_linii",
        << Param("pribor", <<"gbo">>), Param("koordinaty", DegreeCoords),
           Param("traektoriya", <<"meandr", ",", " ", "vertikalno">>),
           Param("dlina", <<"5">>), Param("shirina", <<"5">>),
           Param("mezhgals", <<"5">>) >>)

LineVariable == <<"h", " ", "=", " ", "5">>

CommandLines ==
    { LineScenario, LineScenarioDeg, LineFigure, LineFigureMle, LineStar, LineSpiral,
      LineRosette, LineMeanderOnly, LineNoHeight, LineLine }

\* scripts: up to MaxCmds command lines, with or without the assignment in front
Scripts ==
    LET cmds == UNION { [1..k -> CommandLines] : k \in 1..MaxCmds }
    IN  cmds \cup { <<LineVariable>> \o c : c \in cmds }

NoRules == [k \in {} |-> <<>>]

\* Required = {obsledovanie_tochki: [vysota]}, nothing else
RulesScenario ==
    [ required_keys |-> [k \in {"obsledovanie_tochki"} |-> <<"vysota">>],
      optional_keys |-> NoRules,
      trajectory_dependent |-> NoRules ]

RulesFull ==
    [ required_keys |->
        [k \in {"obsledovanie_tochki", "obsledovanie_figury"} |->
            IF k = "obsledovanie_tochki" THEN <<"vysota", "skorost">> ELSE <<"vysota">>],
      optional_keys |->
        [k \in {"obsledovanie_tochki"} |-> [q \in {"radius"} |-> MkInt(0)]],
      trajectory_dependent |->
        [k \in {"obsledovanie_tochki"} |->
            << [traj |-> "zvezda", params |-> <<"linii">>],
               [traj |-> "spiral", params |-> <<"radius", "mezhgals">>] >>] ]

-----------------------------------------------------------------------------
(* The compiler run of main.py *)

Init ==
    /\ data \in Scripts
    /\ rules \in {RulesScenario, RulesFull}
    /\ phase = "analyze"
    /\ result = <<>>
    /\ vi = 0
    /\ pc = ""
    /\ asking = ""
    /\ asks = 0
    /\ err = ""
    /\ tasks = <<>>
    /\ snap = <<>>
    /\ tokens = <<>>
    /\ variables = EmptyMap
    /\ spiral = NoSpiral

Next ==
    \/ AnalyzerNext
    \/ ValidatorNext
    \/ MainExcept
    \/ Trajectories
    \/ Translate

Spec == Init /\ [][Next]_vars

-----------------------------------------------------------------------------
(* validate() on its own: one entry of any shape under any rule set *)

ValidatorKinds == {"obsledovanie_tochki", "obsledovanie_figury"}
ValidatorKeys == {"vysota", "glubina", "traektoriya", "linii"}

\* the values a script can give each parameter
ScriptValues(param_name) ==
    CASE param_name = "vysota" -> {MkFloat(5), MkStr(<<"abc">>)}
      [] param_name = "glubina" -> {MkFloat(5), MkStr(<<"-5">>), MkStr(<<"abc">>)}
      [] param_name = "traektoriya" -> {MkStr(<<"zvezda">>), MkFloat(5)}
      [] OTHER -> {MkFloat(4), MkStr(<<"abc">>)}

ScriptValueSet == UNION {ScriptValues(k) : k \in ValidatorKeys}

ParameterMaps ==
    UNION { {m \in [S -> ScriptValueSet] : \A k \in S : m[k] \in ScriptValues(k)}
            : S \in SUBSET ValidatorKeys }

ValidatorEntries ==
    { [kind |-> "command", name |-> k, params |-> m] :
        k \in ValidatorKinds, m \in ParameterMaps }

RequiredLists == { <<>>, <<"vysota">>, <<"glubina">>, <<"vysota", "linii">> }

OptionalMaps ==
    { EmptyMap,
      [q \in {"glubina"} |-> MkFloat(5)],
      [q \in {"vysota", "linii"} |-> IF q = "vysota" THEN None ELSE MkStr(<<"5.0">>)],
      [q \in {"vysota", "linii"} |-> MkStr(<<"5">>)] }

DependentLists == { <<>>, << [traj |-> "zvezda", params |-> <<"linii">>] >> }

\* a rule set that gives both command kinds the same lists; an empty list or map
\* stands for a command kind the mapping does not name
RuleSet(req, opt, dep) ==
    [ required_keys |-> [k \in (IF req = <<>> THEN {} ELSE ValidatorKinds) |-> req],
      optional_keys |-> [k \in (IF opt = EmptyMap THEN {} ELSE ValidatorKinds) |-> opt],
      trajectory_dependent |->
        [k \in (IF dep = <<>> THEN {} ELSE {"obsledovanie_tochki"}) |-> dep] ]

RuleSets ==
    { RuleSet(req, opt, dep) :
        req \in RequiredLists, opt \in OptionalMaps, dep \in DependentLists }

InitValidator ==
    /\ data = <<>>
    /\ rules \in RuleSets
    /\ phase = "validate"
    /\ result \in { <<e>> : e \in ValidatorEntries }
    /\ vi = 1
    /\ pc = "point_survey"
    /\ asking = ""
    /\ asks = 0
    /\ err = ""
    /\ tasks = <<>>
    /\ snap = <<>>
    /\ tokens = <<>>
    /\ variables = EmptyMap
    /\ spiral = NoSpiral

SpecValidator == InitValidator /\ [][ValidatorNext]_vars

-----------------------------------------------------------------------------
(* _process_height_depth applied twice to one parameter map *)

Snapshot(params) == [params |-> params, asks |-> asks]

\* first application; its result is recorded when it returns
NormalizeFirst ==
    /\ phase = "normalize" /\ pc = "height_depth" /\ asking = ""
    /\ LET out == _process_height_depth(rules, Entry.name, Entry.params)
       IN  /\ Apply(out, "again")
           /\ snap' = IF out.exc = "" /\ out.ask = "" THEN Snapshot(out.params) ELSE snap
    /\ UNCHANGED <<data, rules, asks, tasks, tokens, variables, spiral>>

\* second application, to the map the first one left
NormalizeAgain ==
    /\ phase = "normalize" /\ pc = "again" /\ asking = ""
    /\ Apply(_process_height_depth(rules, Entry.name, Entry.params), "normalized")
    /\ UNCHANGED <<data, rules, asks, tasks, snap, tokens, variables, spiral>>

InitNormalize ==
    /\ data = <<>>
    /\ rules \in RuleSets
    /\ phase = "normalize"
    /\ result \in { <<e>> : e \in ValidatorEntries }
    /\ vi = 1
    /\ pc = "height_depth"
    /\ asking = ""
    /\ asks = 0
    /\ err = ""
    /\ tasks = <<>>
    /\ snap = <<>>
    /\ tokens = <<>>
    /\ variables = EmptyMap
    /\ spiral = NoSpiral

NormalizeNext ==
    \/ NormalizeFirst
    \/ NormalizeAgain
    \/ PromptReturn
    \/ PromptRetry
    \/ PromptRaise

SpecNormalize == InitNormalize /\ [][NormalizeNext]_vars

-----------------------------------------------------------------------------
(* Analyzator(tokens).analyze() on its own: scripts of assignments, whole and split
   statements, and condition lines *)

\* scripts of the analyzer run have up to MaxLines lines
MaxLines == 3

Assign(name, text) == <<name, " ", "=", " ">> \o text

AssignA == Assign("a", <<"2">>)
AssignB == Assign("b", <<"a", " ", "+", " ", "1">>)
AssignBZero == Assign("b", <<"1", " ", "/", " ", "0">>)
AssignH == LineVariable
AssignHSum == Assign("h", <<"5", " ", "+", " ", "5">>)
\* an assignment that holds a nested call and starts with the condition keyword
AssignCall == Assign("sobytie", Param("f", Param("g", <<"1">>)))

\* obsledovanie_figury(vysota(h), skorost(b)) broken after the comma
StatementHead == <<"obsledovanie_figury", "(">> \o Param("vysota", <<"h">>) \o <<",">>
StatementTail == Param("skorost", <<"b">>) \o <<")">>
Statement == StatementHead \o <<" ">> \o StatementTail

\* obsledovanie_figury (vysota(h), skorost(b)) broken after the command name
NameOnly == <<"obsledovanie_figury">>
ArgumentList == <<"(">> \o Param("vysota", <<"h">>) \o <<",", " ">>
                    \o Param("skorost", <<"b">>) \o <<")">>
StatementSpaced == NameOnly \o <<" ">> \o ArgumentList

LineCondition == <<"sobytie", " ", "x">>
\* a condition line that holds a call
ConditionCall == <<"sobytie", " ">> \o Param("f", <<"1">>)

AnalyzerLines ==
    { AssignA, AssignB, AssignBZero, AssignH, AssignHSum, AssignCall,
      StatementHead, StatementTail, Statement, NameOnly, ArgumentList, LineCondition,
      ConditionCall }

AnalyzerScripts == UNION { [1..k -> AnalyzerLines] : k \in 1..MaxLines }

InitAnalyzer ==
    /\ data \in AnalyzerScripts
    /\ rules = RulesScenario
    /\ phase = "analyze"
    /\ result = <<>>
    /\ vi = 0
    /\ pc = ""
    /\ asking = ""
    /\ asks = 0
    /\ err = ""
    /\ tasks = <<>>
    /\ snap = <<>>
    /\ tokens = <<>>
    /\ variables = EmptyMap
    /\ spiral = NoSpiral

SpecAnalyzer == InitAnalyzer /\ [][AnalyzerNext]_vars

-----------------------------------------------------------------------------
(* Figure(...).coordinates() and the Translator on one validated survey command of
   any kind, pattern text and size (main.py lines 31-42) *)

FigureKinds == {"obsledovanie_tochki", "obsledovanie_figury"}

\* the pattern texts of the commands; <<>> stands for a command without the parameter
PatternTexts ==
    { <<"meandr", ",", " ", "vertikalno">>, <<"meandr", ",", " ", "gorizontalno">>,
      <<"MEANDR", ",", " ", "vertikalno">>,
      <<"spiral", " ", "meandr", ",", " ", "vertikalno">>,
      <<"spiral">>, <<"zvezda">>, <<"rozetka">>, <<"zvezda", " ", "spiral">>,
      <<"veer">>, <<"krug">>, <<"krug", ",", " ", "zvezda">>, <<>> }

Extents == {5, 20}
Spacings == {5, 10}
StarLines == {2, 3, 4}
InnerRadii == {0, 5}

FigureEntry(kind, pattern, length, spacing, lines, radius) ==
    LET base == [q \in {"pribor", "vysota", "skorost", "koordinaty", "dlina", "shirina",
                        "mezhgals", "linii", "radius"} |->
                    CASE q = "pribor" -> MkStr(<<"gbo">>)
                      [] q = "vysota" -> MkFloat(5)
                      [] q = "skorost" -> MkFloat(1)
                      [] q = "koordinaty" -> MkStr(DegreeCoords)
                      [] q = "dlina" -> MkFloat(length)
                      [] q = "shirina" -> MkFloat(10)
                      [] q = "mezhgals" -> MkFloat(spacing)
                      [] q = "linii" -> MkInt(lines)
                      [] OTHER -> MkFloat(radius)]
    IN  [kind |-> "command", name |-> kind,
         params |-> IF pattern = <<>> THEN base
                    ELSE Put(base, "traektoriya", MkStr(pattern))]

FigureEntries ==
    { FigureEntry(kind, pattern, length, spacing, lines, radius) :
        kind \in FigureKinds, pattern \in PatternTexts, length \in Extents,
        spacing \in Spacings, lines \in StarLines, radius \in InnerRadii }

InitFigure ==
    /\ data = <<>>
    /\ rules = RulesScenario
    /\ phase = "validated"
    /\ result \in { <<e>> : e \in FigureEntries }
    /\ vi = 1
    /\ pc = ""
    /\ asking = ""
    /\ asks = 0
    /\ err = ""
    /\ tasks = <<>>
    /\ snap = <<>>
    /\ tokens = <<>>
    /\ variables = EmptyMap
    /\ spiral = NoSpiral

FigureNext ==
    \/ Trajectories
    \/ Translate

SpecFigure == InitFigure /\ [][FigureNext]_vars

-----------------------------------------------------------------------------
(* analyze() followed by validate(): scripts of commands and condition lines *)

ValidatedLines == {LineFigure, LineNoHeight, LineCondition, ConditionCall, LineVariable}

ValidatedScripts == UNION { [1..k -> ValidatedLines] : k \in 1..MaxLines }

InitAnalyzeValidate ==
    /\ data \in ValidatedScripts
    /\ rules \in {RulesScenario, RulesFull}
    /\ phase = "analyze"
    /\ result = <<>>
    /\ vi = 0
    /\ pc = ""
    /\ asking = ""
    /\ asks = 0
    /\ err = ""
    /\ tasks = <<>>
    /\ snap = <<>>
    /\ tokens = <<>>
    /\ variables = EmptyMap
    /\ spiral = NoSpiral

AnalyzeValidateNext ==
    \/ AnalyzerNext
    \/ ValidatorNext

SpecAnalyzeValidate == InitAnalyzeValidate /\ [][AnalyzeValidateNext]_vars

-----------------------------------------------------------------------------
(* SpiralGenerator.generate_spiral on its own, one turn of the while loop at a time *)

SpiralRadii == {0, 5, 10}
SpiralSpacings == {5, 10}
PointFreqs == {1, 2, 3}

\* the call generate_spiral(10.0, 20.0, max_radius_m, spacing_m, clockwise, point_freq)
\* after lines 231-233: points holds the center, radius is 0.  `radius` counts
\* sixteenths of spacing_m (spacing_m * ANGLE_STEP / (2 * pi) is spacing_m / 16).
SpiralCall(max_radius_m, spacing_m, clockwise, point_freq) ==
    [pc |-> "while", center_lon |-> Deg(10), center_lat |-> Deg(20),
     max_radius_m |-> max_radius_m, spacing_m |-> spacing_m,
     direction |-> IF clockwise THEN 1 ELSE 0 - 1, point_freq |-> point_freq,
     radius |-> 0, computed |-> 0, points |-> <<<<Deg(10), Deg(20)>>>>]

InitSpiral ==
    /\ data = <<>>
    /\ rules = NoRules
    /\ phase = "spiral"
    /\ result = <<>>
    /\ vi = 0
    /\ pc = ""
    /\ asking = ""
    /\ asks = 0
    /\ err = ""
    /\ tasks = <<>>
    /\ snap = <<>>
    /\ tokens = <<>>
    /\ variables = EmptyMap
    /\ spiral \in { SpiralCall(R, S, c, N) :
                        R \in SpiralRadii, S \in SpiralSpacings, c \in BOOLEAN,
                        N \in PointFreqs }

\* lines 235-240: the test of the while holds; one turn of the loop.  `computed`
\* (history) counts the points the loop has computed.
SpiralTurn ==
    /\ spiral.pc = "while"
    /\ spiral.radius * spiral.spacing_m <= 16 * spiral.max_radius_m
    /\ LET radius == spiral.radius + 1
           point == add_polar(spiral.center_lat, spiral.center_lon,
                              spiral.direction * radius, radius)
       IN  spiral' = [spiral EXCEPT
                        !.radius = radius,
                        !.computed = @ + 1,
                        !.points = IF Len(@) % spiral.point_freq = 0
                                   THEN Append(@, point) ELSE @]
    /\ UNCHANGED <<data, rules, phase, result, vi, pc, asking, asks, err, tasks, snap,
                   tokens, variables>>

\* line 235 fails, line 242: return points
SpiralReturn ==
    /\ spiral.pc = "while"
    /\ spiral.radius * spiral.spacing_m > 16 * spiral.max_radius_m
    /\ spiral' = [spiral EXCEPT !.pc = "returned"]
    /\ UNCHANGED <<data, rules, phase, result, vi, pc, asking, asks, err, tasks, snap,
                   tokens, variables>>

SpiralNext ==
    \/ SpiralTurn
    \/ SpiralReturn

SpecSpiral == InitSpiral /\ [][SpiralNext]_vars

-----------------------------------------------------------------------------
(* Properties of the plan (checked under Spec) *)

IsSurvey(e) ==
    e.kind = "command" /\ e.name \in {"obsledovanie_figury", "obsledovanie_tochki"}

\* the survey pattern as Figure dispatches on it: lowercase text before the first comma
SurveyPattern(e) == lower(split(e.params["traektoriya"].s, <<",">>)[1])

HasPattern(e) ==
    "traektoriya" \in DOMAIN e.params /\ e.params["traektoriya"].t = "str"

\* figure survey, or point survey whose pattern is meander
IsMeanderSurvey(e) ==
    /\ IsSurvey(e)
    /\ \/ e.name = "obsledovanie_figury"
       \/ HasPattern(e) /\ contains(SurveyPattern(e), "meandr")

\* point survey with any other pattern
IsPlainPointSurvey(e) ==
    /\ IsSurvey(e) /\ e.name = "obsledovanie_tochki"
    /\ HasPattern(e) /\ ~contains(SurveyPattern(e), "meandr")

WaypointsOf(e) == e.params["koordinaty"].s
MoveTo(e, k) ==
    movement(e.params["vysota"], e.params["skorost"], WaypointsOf(e)[k][1],
             WaypointsOf(e)[k][2])

OnIds == {"SidesonarOn", "MBEOnHf", "PhotoOn"}
PauseIds == {"SidesonarPause", "MBEPause"}
ResumeIds == {"SidesonarResume"}
OffIds == {"SidesonarOff", "MBEOff"}
InstrumentIds == OnIds \cup PauseIds \cup ResumeIds \cup OffIds

\* number of tasks the entries before entry i put into the plan
RECURSIVE Offset(_)
Offset(i) == IF i <= 1 THEN 0 ELSE Offset(i - 1) + Len(block(result[i - 1]).tasks)

RECURSIVE Movements(_)
Movements(ts) ==
    IF ts = <<>> THEN <<>>
    ELSE (IF Head(ts).id = "TackPoint" THEN <<Head(ts)>> ELSE <<>>) \o Movements(Tail(ts))

\* C1: the scenario script under Required = {obsledovanie_tochki: [vysota]} compiles
\* without error to 6 waypoints and 14 actions: ON, 6 x (movement, toggle), OFF
C1_ScenarioCompiles ==
    (data = <<LineScenario>> /\ rules = RulesScenario /\ phase \in {"done", "crashed"})
        => /\ phase = "done"
           /\ Len(WaypointsOf(result[1])) = 6
           /\ Len(tasks) = 14
           /\ tasks[1].id = "SidesonarOn"
           /\ \A k \in 1..6 :
                /\ tasks[2 * k].id = "TackPoint"
                /\ tasks[2 * k + 1].id
                     = (IF k % 2 = 1 THEN "SidesonarPause" ELSE "SidesonarResume")
           /\ tasks[14].id = "SidesonarOff"

\* C2: a figure survey, or a point survey whose pattern is meander, with n waypoints
\* gives 2n+2 actions: ON, then per waypoint a movement and a pause (odd) or resume
\* (even), then OFF.  Stated for the side-scan sonar, whose lookup is complete.
C2_TogglingProtocol ==
    phase = "done" =>
        \A i \in 1..Len(result) :
            (IsMeanderSurvey(result[i]) /\ result[i].params["pribor"] = MkStr(<<"gbo">>)) =>
                LET e == result[i]
                    n == Len(WaypointsOf(e))
                    off == Offset(i)
                IN  /\ Len(block(e).tasks) = 2 * n + 2
                    /\ Len(tasks) >= off + 2 * n + 2
                    /\ tasks[off + 1].id \in OnIds
                    /\ \A k \in 1..n :
                        /\ tasks[off + 2 * k] = MoveTo(e, k)
                        /\ tasks[off + 2 * k + 1].id
                             \in (IF k % 2 = 1 THEN PauseIds ELSE ResumeIds)
                    /\ tasks[off + 2 * n + 2].id \in OffIds

C4_OrderPreserved ==
    phase = "done" =>
        /\ Len(tasks) = Offset(Len(result) + 1)
        /\ \A i \in 1..Len(result) :
            LET e == result[i]
                slice == SubSeq(tasks, Offset(i) + 1, Offset(i + 1))
            IN  IF IsSurvey(e)
                THEN Movements(slice) = [k \in 1..Len(WaypointsOf(e)) |-> MoveTo(e, k)]
                ELSE slice = <<>>
        /\ Len(Movements(tasks)) <= Len(tasks)

\* a plan of two survey blocks with different waypoint lists
C4_Witness ==
    /\ phase = "done"
    /\ Len(result) >= 2
    /\ IsSurvey(result[1]) /\ IsSurvey(result[2])
    /\ Len(WaypointsOf(result[1])) >= 2 /\ Len(WaypointsOf(result[2])) >= 2
    /\ WaypointsOf(result[1]) # WaypointsOf(result[2])
    /\ Len(Movements(tasks))
         = Len(WaypointsOf(result[1])) + Len(WaypointsOf(result[2]))

\* C5: a (device, status) pair outside the lookup adds no entry: the plan holds only
\* movement and instrument action records
C5_OnlyActionRecords ==
    phase = "done" =>
        \A k \in 1..Len(tasks) : tasks[k].id \in InstrumentIds \cup {"TackPoint"}

-----------------------------------------------------------------------------
(* Properties of validation (checked under SpecValidator) *)

Validated(i) == phase = "validated" /\ i \in 1..Len(result) /\ IsCommand(result[i])

\* C6: after validation no parameter map holds both height and depth
C6_NeverHeightAndDepth ==
    \A i \in 1..Len(result) :
        Validated(i) => ~({"vysota", "glubina"} \subseteq DOMAIN result[i].params)

\* C7: after validation without error every Required name of the command kind is a
\* key of its parameter map
C7_RequiredPresent ==
    \A i \in 1..Len(result) :
        (Validated(i) /\ result[i].name \in DOMAIN rules.required_keys) =>
            \A k \in 1..Len(rules.required_keys[result[i].name]) :
                rules.required_keys[result[i].name][k] \in DOMAIN result[i].params

\* validation ended well for a command with two Required names, after asking
C7_Witness ==
    /\ Validated(1)
    /\ result[1].name \in DOMAIN rules.required_keys
    /\ Len(rules.required_keys[result[1].name]) = 2
    /\ asks > 0

ValidationErrors == {"ValueError"}

\* C10: when the collaborator raises or declines while an absent Required parameter
\* is asked for, validation ends with a validation error, no other error kind
C10_ValidationErrorOnDecline ==
    (phase = "failed" /\ pc = "required" /\ asking # "") => err \in ValidationErrors

StepOrder == <<"point_survey", "height_depth", "required", "optional", "convert">>

RequiredOf(e) ==
    IF e.name \in DOMAIN rules.required_keys
    THEN {rules.required_keys[e.name][i] : i \in 1..Len(rules.required_keys[e.name])}
    ELSE {}

OptionalOf(e) ==
    IF e.name \in DOMAIN rules.optional_keys THEN rules.optional_keys[e.name]
    ELSE EmptyMap

\* C18: the steps of a command run in the order pattern bootstrap, height/depth,
\* Required, Optional, coercion.  When the Optional step runs every Required name is
\* present already (an absent one came from the prompt, not from a default); the step
\* keeps every present parameter and adds exactly the absent Optional names with
\* their defaults; the coercion that follows leaves every typed parameter that is not
\* null, an inserted default included, with its declared type.
C18_FixedStepOrder ==
    [][ phase = "validate" =>
        /\ pc' # pc =>
            \/ \E s \in 1..4 : pc = StepOrder[s] /\ pc' = StepOrder[s + 1]
            \/ pc = "convert" /\ pc' \in {"point_survey", ""}
        /\ (pc = "optional" /\ pc' = "convert" /\ IsCommand(Entry)) =>
            LET before == result[vi].params
                after == result'[vi].params
            IN  /\ RequiredOf(Entry) \subseteq DOMAIN before
                /\ DOMAIN after = (DOMAIN before) \cup (DOMAIN OptionalOf(Entry))
                /\ \A p \in DOMAIN before : after[p] = before[p]
                /\ \A p \in (DOMAIN after) \ (DOMAIN before) : after[p] = OptionalOf(Entry)[p]
        /\ (pc = "convert" /\ pc' # "convert") =>
            \A p \in DOMAIN result'[vi].params :
                (PARAM_TYPES(p) # "" /\ result[vi].params[p] # None) =>
                    result'[vi].params[p].t = PARAM_TYPES(p)
      ]_vars

\* the line count is listed in Required and in Optional with a default that does not
\* convert; the validated command has the count typed at the prompt
C18_Witness ==
    /\ Validated(1)
    /\ "linii" \in RequiredOf(result[1])
    /\ "linii" \in DOMAIN OptionalOf(result[1])
    /\ OptionalOf(result[1])["linii"] = MkStr(<<"5.0">>)
    /\ result[1].params["linii"] = MkInt(5)
    /\ asks > 0

\* nothing was asked: the line count is its default, coerced to the integer
C18_WitnessDefault ==
    /\ Validated(1)
    /\ asks = 0
    /\ "linii" \in DOMAIN OptionalOf(result[1])
    /\ OptionalOf(result[1])["linii"] = MkStr(<<"5">>)
    /\ result[1].params["linii"] = MkInt(5)

-----------------------------------------------------------------------------
(* Property of normalization (checked under SpecNormalize) *)

\* C9: a second _process_height_depth on the map the first one produced leaves the
\* map as it is, asks for nothing and raises nothing
C9_NormalizeIdempotent ==
    /\ pc = "again" => (asking = "" /\ phase = "normalize")
    /\ pc = "normalized" =>
        /\ result[1].params = snap.params
        /\ asks = snap.asks

\* both applications done, the first having folded a depth or asked for the height
C9_Witness ==
    /\ pc = "normalized"
    /\ snap.asks > 0
    /\ "vysota" \in DOMAIN result[1].params

\* the number a depth stands for: a number, or the text of a numeric literal
IsNumeric(d) == d.t = "float" \/ (d.t = "str" /\ Len(d.s) = 1 /\ d.s[1] \in Literals)
NumberOf(d) == IF d.t = "float" THEN d.n ELSE NumVal(d.s[1])
Magnitude(n) == IF n < 0 THEN 0 - n ELSE n

\* C19: one application of the normalization.  Height and depth present: the depth
\* is removed.  Only a depth d: it is removed and the height is -|d|, never above 0.
\* Neither: the height is asked for iff Required lists it.  Nothing else of the map
\* is added, removed or changed.
C19_NormalizationResult ==
    [][ (phase = "normalize" /\ pc = "height_depth" /\ asking = "") =>
        LET before == result[vi].params
            after == result'[vi].params
            has_height == "vysota" \in DOMAIN before
            has_depth == "glubina" \in DOMAIN before
            rest == (DOMAIN before) \ {"vysota", "glubina"}
        IN  /\ \A p \in rest : p \in DOMAIN after /\ after[p] = before[p]
            /\ (DOMAIN after) \ {"vysota", "glubina"} = rest
            /\ (has_height /\ has_depth) =>
                /\ "glubina" \notin DOMAIN after
                /\ after["vysota"] = before["vysota"]
                /\ asking' = "" /\ phase' = "normalize"
            /\ (has_depth /\ ~has_height /\ IsNumeric(before["glubina"])) =>
                /\ "glubina" \notin DOMAIN after
                /\ after["vysota"] = MkFloat(0 - Magnitude(NumberOf(before["glubina"])))
                /\ after["vysota"].n <= 0
                /\ asking' = "" /\ phase' = "normalize"
            /\ (~has_depth /\ ~has_height) =>
                /\ after = before
                /\ (asking' = "vysota") = ("vysota" \in RequiredOf(Entry))
                /\ asking' \in {"", "vysota"} /\ phase' = "normalize"
            /\ (has_height /\ ~has_depth) =>
                /\ after = before /\ asking' = "" /\ phase' = "normalize"
      ]_vars

\* a lone depth of 5 was folded: the map has the height -5 and no depth
C19_Witness ==
    /\ phase = "normalize" /\ pc = "again"
    /\ asks = 0
    /\ snap # <<>>
    /\ "glubina" \notin DOMAIN snap.params
    /\ "vysota" \in DOMAIN snap.params
    /\ snap.params["vysota"] = MkFloat(-5)

-----------------------------------------------------------------------------
(* Properties of the analysis (checked under SpecAnalyzer) *)

Analyzed == phase \in {"validate", "validated"}

\* the lines of a script written on one line, a blank between two lines
RECURSIVE JoinLines(_)
JoinLines(lines) ==
    IF Len(lines) = 1 THEN Head(lines)
    ELSE Head(lines) \o <<" ">> \o JoinLines(Tail(lines))

\* what the analyzer makes of a statement written on one line
OneLine(statement) == syntactic_analysis(EmptyMap, check_type(statement), statement).entry

\* C11: a function-call statement split at whitespace into consecutive lines gives
\* exactly one command, the one the statement gives when written on one line
C11_TokenMerge ==
    \A statement \in {Statement, StatementSpaced} :
        (JoinLines(data) = statement /\ phase # "analyze") =>
            /\ Analyzed
            /\ result = <<OneLine(statement)>>

\* the number an operand of an arithmetic expression stands for: a literal, or a
\* variable bound to a literal; None otherwise
Operand(sym) ==
    IF sym \in Literals THEN Number(sym)
    ELSE IF sym \in DOMAIN variables /\ Len(variables[sym].s) = 1
            /\ variables[sym].s[1] \in Literals
    THEN Number(variables[sym].s[1])
    ELSE None

\* the text is `x + y` or `x / y` over numbers
IsArithmetic(text) ==
    /\ Len(text) = 5 /\ text[2] = " " /\ text[4] = " " /\ text[3] \in {"+", "/"}
    /\ Operand(text[1]) # None /\ Operand(text[5]) # None

\* C12: resolve(name) never raises; it is the evaluated number when the bound text is
\* arithmetic over numbers and variables bound to numbers (b = a + 1 after a = 2
\* gives 3), and the bound text otherwise
C12_ResolveEvaluates ==
    \A name \in DOMAIN variables :
        LET text == variables[name].s
            r == get_variable(variables, name)
        IN  /\ r.ok
            /\ IF Len(text) = 1 /\ text[1] \in Literals THEN r.v = Number(text[1])
               ELSE IF IsArithmetic(text) /\ text[3] = "+"
               THEN r.v.t \in {"int", "float"}
                    /\ r.v.n = Operand(text[1]).n + Operand(text[5]).n
               ELSE IF IsArithmetic(text) THEN r.v.t \in {"int", "float"}
               ELSE r.v = variables[name]

\* the classification of a line in the order variable, function, condition,
\* continuation
Classified(line) ==
    LET opens == count(line, "(")
        closes == count(line, ")")
        last == rfind(line, ")")
        trimmed == strip(line, {" "})
    IN  IF contains(line, "=") THEN "variable"
        ELSE IF opens > 0
                /\ (opens > closes
                      \/ (opens = closes /\ last > 1 /\ line[last - 1] = ")"))
        THEN "function"
        ELSE IF trimmed # <<>> /\ Head(trimmed) = "sobytie" THEN "condition"
        ELSE "addition"

\* the number of lines joined in the first k tokens
RECURSIVE LinesBefore(_)
LinesBefore(k) == IF k = 0 THEN 0 ELSE LinesBefore(k - 1) + tokens[k].lines

\* C15: every line is classified first-match-wins in the order variable, function,
\* condition, continuation: each token has the type of the line that starts it,
\* every line joined to it is a continuation, and every line is in some token
C15_ClassifierOrder ==
    (phase = "analyze" /\ pc = "tokens") =>
        /\ LinesBefore(Len(tokens)) = Len(data)
        /\ \A k \in 1..Len(tokens) :
            /\ tokens[k].type = Classified(data[LinesBefore(k - 1) + 1])
            /\ \A j \in (LinesBefore(k - 1) + 2)..LinesBefore(k) :
                    Classified(data[j]) = "addition"

\* an assignment that holds a call and starts with the condition keyword is a
\* variable, a condition that holds a call is a condition, and a line with more
\* closing than opening parentheses was joined as a continuation
C15_Witness ==
    /\ phase = "analyze" /\ pc = "tokens"
    /\ data = <<AssignCall, ConditionCall, StatementTail>>
    /\ Len(tokens) = 2
    /\ tokens[1].type = "variable"
    /\ tokens[2].type = "condition" /\ tokens[2].lines = 2

\* the positions of the tokens that are functions or conditions
Emitting == {k \in 1..Len(tokens) : tokens[k].type \in {"function", "condition"}}

\* C16: the output has exactly one entry per function token and per condition token,
\* in source order, and no entry for a variable token or for an unrecognized token
\* (a continuation line that has no preceding token)
C16_OneEntryPerEmittedToken ==
    Analyzed =>
        /\ Len(result) = Cardinality(Emitting)
        /\ \A i \in 1..Len(result) :
            /\ result[i].kind \in {"command", "condition"}
            /\ \E k \in Emitting :
                /\ Cardinality({j \in Emitting : j < k}) = i - 1
                /\ (result[i].kind = "command") = (tokens[k].type = "function")

\* the token the i-th entry of the output comes from: the i-th token that is not an
\* assignment
TokenOf(i) ==
    CHOOSE k \in 1..Len(tokens) :
        /\ tokens[k].type # "variable"
        /\ Cardinality({j \in 1..k : tokens[j].type # "variable"}) = i

\* the name an assignment binds
AssignedName(text) == Join(strip(SubSeq(text, 1, find(text, "=") - 1), {" "}))

\* the assignments to the name that precede the token k
Writers(name, k) ==
    {j \in 1..(k - 1) : tokens[j].type = "variable" /\ AssignedName(tokens[j].text) = name}

\* the resolved value of one assignment on its own
Resolved(text) ==
    get_variable(set_raw_variable(EmptyMap, text), AssignedName(text)).v

\* C17: every emitted command has, for a parameter whose text is a name assigned
\* before the command, the resolved value of the latest such assignment, and its
\* script value otherwise; this stays so while later assignments are processed
C17_BindingsAtPosition ==
    \A i \in 1..Len(result) :
        result[i].kind = "command" =>
            LET k == TokenOf(i)
                raw == set_raw_command(tokens[k].text).params
            IN  /\ DOMAIN result[i].params = DOMAIN raw
                /\ \A p \in DOMAIN raw :
                    LET writers == IF raw[p].t = "str"
                                   THEN Writers(Join(raw[p].s), k) ELSE {}
                    IN  result[i].params[p] =
                            IF writers = {} THEN raw[p]
                            ELSE Resolved(tokens[CHOOSE j \in writers :
                                                    \A w \in writers : w <= j].text)

\* h = 5, then h = 5 + 5, then the command: its height is 10, and its speed, the
\* unbound name b, is untouched
C17_Witness ==
    /\ Analyzed
    /\ data = <<AssignH, AssignHSum, Statement>>
    /\ Len(result) = 1
    /\ result[1].params["vysota"] = MkInt(10)
    /\ result[1].params["skorost"] = MkStr(<<"b">>)

\* h = 5, the command, then h = 5 + 5: the emitted height stays 5
C17_WitnessLater ==
    /\ Analyzed
    /\ data = <<AssignH, Statement, AssignHSum>>
    /\ get_variable(variables, "h").v = MkInt(10)
    /\ result[1].params["vysota"] = MkInt(5)

-----------------------------------------------------------------------------
(* Properties of the trajectories (checked under SpecFigure) *)

\* the waypoints are attached: line 40 of main.py has run for the command
Attached(e) == e.kind = "command" /\ e.params["koordinaty"].t = "dict"

\* the dimension the passes divide: _generate_meander_segment takes its `steps` from
\* width_m (dlina) for the vertical axis, from length_m (shirina) for the horizontal
CrossExtent(e) ==
    IF split(e.params["traektoriya"].s, <<",", " ">>)[2] = <<"vertikalno">>
    THEN e.params["dlina"].n ELSE e.params["shirina"].n

\* C13: a meander of cross-extent C and spacing S > 0, C < S included, has exactly
\* 2 * (floor(C / S) + 1) waypoints
C13_MeanderCount ==
    \A i \in 1..Len(result) :
        (Attached(result[i]) /\ HasPattern(result[i])
            /\ contains(SurveyPattern(result[i]), "meandr")) =>
            Len(WaypointsOf(result[i]))
                = 2 * ((CrossExtent(result[i]) \div result[i].params["mezhgals"].n) + 1)

\* the center of the model's surveys: the coordinates DegreeCoords, parsed
Center ==
    << Deg(parse_coordinate(split(DegreeCoords, <<",", " ">>)[1]).v),
       Deg(parse_coordinate(split(DegreeCoords, <<",", " ">>)[2]).v) >>

\* a point at the polar displacement (ang, r) from the center
Polar(ang, r) ==
    << [Center[1] EXCEPT !.ang = ang, !.r = r], [Center[2] EXCEPT !.ang = ang, !.r = r] >>

\* line_length when the command has no dlina_lucha (Figure.coordinates, line 481)
DefaultLineLength == 20

IsStar(e) ==
    /\ e.kind = "command" /\ HasPattern(e)
    /\ _get_trajectory_type(e.name, e.params) = "zvezda"

\* C14: a star of n >= 2 rays is n groups in increasing ray index, each ending with
\* the center: (tip, center) with inner radius 0, 2n points; (tip, inner vertex,
\* center) with a positive inner radius, 3n points.  Angles count half steps.
C14_StarHubAndSpoke ==
    \A i \in 1..Len(result) :
        (Attached(result[i]) /\ IsStar(result[i])) =>
            LET n == result[i].params["linii"].n
                radius == result[i].params["radius"].n
                g == IF radius > 0 THEN 3 ELSE 2
                points == WaypointsOf(result[i])
            IN  /\ Len(points) = g * n
                /\ \A ray \in 0..(n - 1) :
                    /\ points[g * ray + 1] = Polar(2 * ray, DefaultLineLength)
                    /\ radius > 0 => points[g * ray + 2] = Polar(2 * ray + 1, radius)
                    /\ points[g * ray + g] = Center

\* a star of 4 rays without inner vertices is attached: 8 points
C14_Witness ==
    /\ phase = "translate"
    /\ Attached(result[1]) /\ IsStar(result[1])
    /\ result[1].params["linii"].n = 4
    /\ result[1].params["radius"].n = 0
    /\ Len(WaypointsOf(result[1])) = 8

\* the dispatch on the command kind and the lowercase text before the first comma,
\* with the given keywords for the rosette
Dispatch(e, rosette_keywords) ==
    LET text == IF "traektoriya" \in DOMAIN e.params
                THEN lower(split(e.params["traektoriya"].s, <<",">>)[1]) ELSE <<>>
    IN  IF contains(text, "meandr") /\ e.name = "obsledovanie_tochki"
        THEN "centralnyi_meandr"
        ELSE IF contains(text, "meandr") THEN "meandr"
        ELSE IF contains(text, "spiral") THEN "spiral"
        ELSE IF contains(text, "zvezda") THEN "zvezda"
        ELSE IF \E kw \in rosette_keywords : contains(text, kw) THEN "rozetka"
        ELSE "None"

\* lines 31-40 of main.py have run, or have raised, for the survey; its pattern is
\* text or absent
Dispatched(e) ==
    /\ phase \in {"translate", "done", "crashed"}
    /\ e.kind = "command" /\ e.name \in FigureKinds
    /\ "traektoriya" \in DOMAIN e.params => e.params["traektoriya"].t = "str"

\* the survey carries what the generator of the trajectory type gives: its waypoints,
\* or its exception, the survey being left without waypoints
Carries(e, trajectory_type) ==
    LET g == generate(trajectory_type, e.params, Center[1].deg, Center[2].deg)
    IN  IF g.ok THEN Attached(e) /\ WaypointsOf(e) = g.points
        ELSE phase = "crashed" /\ err = g.exc /\ ~Attached(e)

\* C20 as claimed: the generator is chosen by the priority centered-meander > meander
\* > spiral > star > rosette on the five keywords, and with none of them in the text
\* (or no pattern parameter) the waypoint sequence is empty and nothing is raised
C20_DispatchFiveKeywords ==
    \A i \in 1..Len(result) :
        Dispatched(result[i]) => Carries(result[i], Dispatch(result[i], {"rozetka"}))

\* C20 amended: the same with the rosette chosen by either of its two keywords,
\* rozetka and veer
C20_DispatchWithFan ==
    \A i \in 1..Len(result) :
        Dispatched(result[i]) =>
            Carries(result[i], Dispatch(result[i], {"rozetka", "veer"}))

\* a point survey whose text names spiral and meander got the centered meander
C20_Witness ==
    /\ phase = "translate"
    /\ result[1].name = "obsledovanie_tochki"
    /\ HasPattern(result[1])
    /\ contains(SurveyPattern(result[1]), "spiral")
    /\ contains(SurveyPattern(result[1]), "meandr")
    /\ Attached(result[1])
    /\ Len(WaypointsOf(result[1])) % 2 = 1

-----------------------------------------------------------------------------
(* Property of the spiral (checked under SpecSpiral) *)

\* C21: the spiral starts with the center; the radius grows by spacing / 16 per turn
\* and the loop ends at the first turn whose starting radius exceeds the maximum
\* radius, after floor(16 R / S) + 1 turns; with the decimation factor N every Nth
\* computed point is retained, floor(computed / N) points after the center
C21_SpiralDecimation ==
    spiral.pc # "idle" =>
        /\ spiral.points[1] = <<spiral.center_lon, spiral.center_lat>>
        /\ spiral.radius = spiral.computed
        /\ spiral.computed <= ((16 * spiral.max_radius_m) \div spiral.spacing_m) + 1
        /\ spiral.pc = "returned" =>
            /\ spiral.radius * spiral.spacing_m > 16 * spiral.max_radius_m
            /\ (spiral.radius - 1) * spiral.spacing_m <= 16 * spiral.max_radius_m
            /\ Len(spiral.points) = 1 + (spiral.computed \div spiral.point_freq)

-----------------------------------------------------------------------------
(* Property of the analyzer output under validation (checked under
   SpecAnalyzeValidate) *)

\* the analyzer output holds a condition record
HasCondition == \E i \in 1..Len(result) : result[i].kind = "condition"

\* C22: validation of an analyzer output that holds a condition record never fails at
\* the condition record, and when it completes the list has one entry per emitted
\* token, in order, each condition record being the tagged raw text of its token
C22_ConditionAccepted ==
    (phase \in {"validate", "validated", "failed"} /\ HasCondition) =>
        /\ phase = "failed" => result[vi].kind # "condition"
        /\ phase = "validated" =>
            /\ Len(result) = Cardinality(Emitting)
            /\ \A i \in 1..Len(result) :
                    tokens[TokenOf(i)].type = "condition" =>
                        result[i] = [kind |-> "condition", name |-> "type",
                                     value |-> tokens[TokenOf(i)].text]

====
